---- MODULE Spec2Model ----
(***************************************************************************)
(* Model of krossbar-settings-common/src/settings.rs: a key/value settings *)
(* store kept in one JSON document on disk.  The file is a sequence of     *)
(* lexical tokens (each token is the text it stands for), every handle has *)
(* its own file cursor, and every accessor is one call of modify_settings. *)
(***************************************************************************)
EXTENDS Integers, Sequences, FiniteSets, TLC

\* exists   : a file is at the path
\* file     : the content of the file
\* handles  : for every store, whether it is open and where its cursor is
\* ret      : the last call and what it returned
\* History of the run, which the program does not keep:
\* before   : the content of the file when the last call began
\* abs      : the map obtained by applying the successful sets and clears
\* lastOp   : for every key, the last successful set or clear
\* lastVal  : for every key, the value of that set
\* fresh    : "created" after an open that created the file, "first" after
\*            the first call that follows it
\* reopened : for every store, whether it was dropped and opened again
\* log      : who made the last call, who made the last successful set or
\*            clear, and for the opens and calls that run step by step how
\*            often the file was created, what every store wrote last and in which
\*            call, which store wrote last, whether the other store wrote
\*            between the truncate and the write of a store, the calls
\*            every store began (at most MaxCalls), and the file step
\*            that failed last
\* Calls in progress, when the calls of two stores run step by step:
\* proc     : for every store, the step it is at, the function of the call
\*            and the result of that function
VARIABLES exists, file, handles, ret, before, abs, lastOp, lastVal, fresh, reopened,
          log, proc

vars == <<exists, file, handles, ret, before, abs, lastOp, lastVal, fresh, reopened,
          log, proc>>

(* ------------------------------ bounds --------------------------------- *)

NumKeys == 2
MaxInt == 1

\* The calls a store makes when its calls run step by step.
MaxCalls == 1

(* ------------------------------ handles -------------------------------- *)

Handles == {1, 2}
Owner == 1

(* ------------------------- keys, values, types ------------------------- *)

KeyName(i) == "k" \o ToString(i)
Keys == {KeyName(i) : i \in 1..NumKeys}

Strings == {"x"}
Quote(s) == "\"" \o s \o "\""

NoVal == [ty |-> "none", v |-> "-"]

\* The values a caller passes to set<T>: integers, a string, floats (one of
\* them not a number) and a map whose keys are not strings.
RustValues ==
    {[ty |-> "i64", v |-> ToString(n)] : n \in 1..MaxInt}
    \cup {[ty |-> "String", v |-> s] : s \in Strings}
    \cup {[ty |-> "f64", v |-> "1.5"], [ty |-> "f64", v |-> "NaN"]}
    \cup {[ty |-> "BadMap", v |-> "-"]}

\* The types a caller asks get<T> for.
Types == {"i64", "String", "f64"}

(* ------------------------------ JSON text ------------------------------ *)

IntTokens == {ToString(n) : n \in 1..MaxInt}
FloatTokens == {"1.5"}
StringTokens == {Quote(s) : s \in Strings}
ValueTokens == IntTokens \cup FloatTokens \cup StringTokens \cup {"null"}
KeyTokens == {Quote(k) : k \in Keys}
Whitespace == {"\n", " "}

EmptyMap == [k \in {} |-> "null"]

MapInsert(map, key, value) ==
    [k \in (DOMAIN map) \cup {key} |-> IF k = key THEN value ELSE map[k]]

MapRemove(map, key) == [k \in (DOMAIN map) \ {key} |-> map[k]]

\* serde_json::to_value: a float that is not a number becomes null, a map
\* whose keys are not strings is an error.
ToValue(value) ==
    CASE value.ty = "i64" -> [ok |-> TRUE, tok |-> value.v]
      [] value.ty = "String" -> [ok |-> TRUE, tok |-> Quote(value.v)]
      [] value.ty = "f64" ->
            [ok |-> TRUE, tok |-> IF value.v = "NaN" THEN "null" ELSE value.v]
      [] OTHER -> [ok |-> FALSE, tok |-> "null"]

\* serde_json::from_value into the requested type.
FromValue(tok, T) ==
    CASE T = "i64" /\ tok \in IntTokens ->
            [ok |-> TRUE, val |-> [ty |-> "i64", v |-> tok]]
      [] T = "String" /\ tok \in StringTokens ->
            [ok |-> TRUE,
             val |-> [ty |-> "String", v |-> CHOOSE s \in Strings : Quote(s) = tok]]
      [] T = "f64" /\ tok \in IntTokens ->
            [ok |-> TRUE, val |-> [ty |-> "f64", v |-> tok \o ".0"]]
      [] T = "f64" /\ tok \in FloatTokens ->
            [ok |-> TRUE, val |-> [ty |-> "f64", v |-> tok]]
      [] OTHER -> [ok |-> FALSE, val |-> NoVal]

\* The members of an object, in the order of the map's keys.
RECURSIVE PrettyMembers(_, _, _)
PrettyMembers(map, i, first) ==
    IF i > NumKeys THEN <<>>
    ELSE IF KeyName(i) \in DOMAIN map
         THEN (IF first THEN <<>> ELSE <<",">>)
              \o <<"\n", Quote(KeyName(i)), ":", " ", map[KeyName(i)]>>
              \o PrettyMembers(map, i + 1, FALSE)
         ELSE PrettyMembers(map, i + 1, first)

\* serde_json::to_vec_pretty of Value::Object(map).
ToVecPretty(map) ==
    IF DOMAIN map = {} THEN <<"{", "}">>
    ELSE <<"{">> \o PrettyMembers(map, 1, TRUE) \o <<"\n", "}">>

RECURSIVE StripWhitespace(_)
StripWhitespace(data) ==
    IF data = <<>> THEN <<>>
    ELSE IF Head(data) \in Whitespace THEN StripWhitespace(Tail(data))
         ELSE <<Head(data)>> \o StripWhitespace(Tail(data))

ParseErr == [kind |-> "Err", map |-> EmptyMap]

\* The members of an object from token i on; a repeated key keeps the last
\* value, anything after the closing brace is an error.
RECURSIVE ParseMembers(_, _, _)
ParseMembers(toks, i, acc) ==
    IF i + 3 > Len(toks) THEN ParseErr
    ELSE IF ~(toks[i] \in KeyTokens /\ toks[i + 1] = ":"
              /\ toks[i + 2] \in ValueTokens) THEN ParseErr
    ELSE LET key == CHOOSE k \in Keys : Quote(k) = toks[i]
             next == MapInsert(acc, key, toks[i + 2])
         IN  IF toks[i + 3] = "," THEN ParseMembers(toks, i + 4, next)
             ELSE IF toks[i + 3] = "}" /\ i + 3 = Len(toks)
                  THEN [kind |-> "Object", map |-> next]
                  ELSE ParseErr

\* serde_json::from_slice: an object, another JSON value, or an error.
FromSlice(data) ==
    LET toks == StripWhitespace(data)
    IN  IF toks = <<>> THEN ParseErr
        ELSE IF toks[1] = "{"
             THEN IF Len(toks) >= 2 /\ toks[2] = "}"
                  THEN IF Len(toks) = 2
                       THEN [kind |-> "Object", map |-> EmptyMap]
                       ELSE ParseErr
                  ELSE ParseMembers(toks, 2, EmptyMap)
        ELSE IF Len(toks) = 1 /\ toks[1] \in ValueTokens
             THEN [kind |-> "Other", map |-> EmptyMap]
        ELSE IF toks = <<"[", "]">>
             THEN [kind |-> "Other", map |-> EmptyMap]
        ELSE ParseErr

(* --------------------------- file primitives --------------------------- *)

\* The seek is left out: the cursor stays where the last call left it.
SeekStart_NoSeek(pos) == pos

\* Seek(SeekFrom::Start(0)).
SeekStart(pos) == 0

\* read_to_end: everything from the cursor to the end of the file.
ReadToEnd(f, pos) == IF pos >= Len(f) THEN <<>> ELSE SubSeq(f, pos + 1, Len(f))

\* The file stays as long as it was.
SetLen_Keep(f, n) == f

\* set_len(n): cut the file, or extend it with zero bytes; the cursor stays.
SetLen(f, n) ==
    IF n <= Len(f) THEN SubSeq(f, 1, n)
    ELSE f \o [i \in 1..(n - Len(f)) |-> "\\0"]

\* The file is written as a file opened for appending is: at its end.
WriteAll_Append(f, pos, data) == f \o data

\* write_all at the cursor: overwrites what is there, extends the file past
\* its end, and leaves a hole of zero bytes when the cursor is beyond the end.
WriteAll(f, pos, data) ==
    LET base == IF pos > Len(f) THEN SetLen(f, pos) ELSE f
        newLen == IF pos + Len(data) > Len(base) THEN pos + Len(data) ELSE Len(base)
    IN  [i \in 1..newLen |->
            IF i > pos /\ i <= pos + Len(data) THEN data[i - pos] ELSE base[i]]

\* The initial content of a file that open creates.
InitialContent == <<"{", "}">>

\* The file is opened as File::create opens it: truncated.
OpenExisting_Truncate(f) == <<>>

\* OpenOptions::new().read(true).write(true).open: the content is kept.
OpenExisting(f) == f

(* ------------------- the functions the accessors pass ------------------ *)

FuncResult(kind, val, flag, list, map) ==
    [kind |-> kind, val |-> val, flag |-> flag, list |-> list, map |-> map]

\* A value of the wrong shape is reported as a missing key.
GetFunc_TypeAsNotFound(map, key, T) ==
    IF key \in DOMAIN map /\ FromValue(map[key], T).ok
    THEN FuncResult("Ok", FromValue(map[key], T).val, FALSE, <<>>,
                    MapRemove(map, key))
    ELSE FuncResult("NotFound", NoVal, FALSE, <<>>, map)

\* get: takes the entry out of the map and converts it to T.
GetFunc(map, key, T) ==
    IF key \in DOMAIN map
    THEN LET r == FromValue(map[key], T)
         IN  FuncResult(IF r.ok THEN "Ok" ELSE "Type", r.val, FALSE, <<>>,
                        MapRemove(map, key))
    ELSE FuncResult("NotFound", NoVal, FALSE, <<>>, map)

HasValueFunc(map, key) ==
    FuncResult("Ok", NoVal, key \in DOMAIN map, <<>>, map)

SetFunc(map, key, value) ==
    LET j == ToValue(value)
    IN  IF j.ok THEN FuncResult("Ok", NoVal, FALSE, <<>>, MapInsert(map, key, j.tok))
        ELSE FuncResult("Type", NoVal, FALSE, <<>>, map)

\* The entry is looked up and left in place.
ClearFunc_NoRemove(map, key) == FuncResult("Ok", NoVal, FALSE, <<>>, map)

\* A missing key is an error.
ClearFunc_AbsentFails(map, key) ==
    IF key \in DOMAIN map
    THEN FuncResult("Ok", NoVal, FALSE, <<>>, MapRemove(map, key))
    ELSE FuncResult("NotFound", NoVal, FALSE, <<>>, map)

ClearFunc(map, key) ==
    FuncResult("Ok", NoVal, FALSE, <<>>, MapRemove(map, key))

RECURSIVE ListEntries(_, _)
ListEntries(map, i) ==
    IF i > NumKeys THEN <<>>
    ELSE IF KeyName(i) \in DOMAIN map
         THEN <<(<<KeyName(i), map[KeyName(i)]>>)>> \o ListEntries(map, i + 1)
         ELSE ListEntries(map, i + 1)

\* The iteration starts after the first key.
ListValuesFunc_SkipFirst(map) ==
    FuncResult("Ok", NoVal, FALSE, ListEntries(map, 2), EmptyMap)

\* list_values: takes every entry out of the map, in the order of its keys.
ListValuesFunc(map) ==
    FuncResult("Ok", NoVal, FALSE, ListEntries(map, 1), EmptyMap)

\* The closures the accessors pass to modify_settings, with what they capture.
Closure(name, key, T, value) == [name |-> name, key |-> key, ty |-> T, value |-> value]

\* func(&mut map)
Call(func, map) ==
    CASE func.name = "get" -> GetFunc(map, func.key, func.ty)
      [] func.name = "has_value" -> HasValueFunc(map, func.key)
      [] func.name = "set" -> SetFunc(map, func.key, func.value)
      [] func.name = "clear" -> ClearFunc(map, func.key)
      [] OTHER -> ListValuesFunc(map)

GetWriteBack_On == TRUE
GetWriteBack == FALSE
HasValueWriteBack == FALSE
SetWriteBack == TRUE
ClearWriteBack == TRUE
ListValuesWriteBack == FALSE

(* --------------------------- modify_settings --------------------------- *)

\* Text that is not an object is replaced by the default document.
LoadDocument_Default(data) ==
    IF FromSlice(data).kind = "Object" THEN FromSlice(data)
    ELSE [kind |-> "Object", map |-> EmptyMap]

\* The bytes read, converted to JSON.
LoadDocument(data) == FromSlice(data)

\* The result of the function is not looked at.
WriteBackCond_Always(write_back, kind) == write_back

\* The condition of the write-back.
WriteBackCond(write_back, kind) == write_back /\ kind = "Ok"

TxnResult(f, pos, r) ==
    [file |-> f, pos |-> pos, kind |-> r.kind, val |-> r.val, flag |-> r.flag,
     list |-> r.list]

Corrupted == FuncResult("Corrupted", NoVal, FALSE, <<>>, EmptyMap)

\* One call of modify_settings on file content f through a handle whose cursor
\* is at pos: the new content, the new cursor and the result of the call.
ModifySettings(f, pos, write_back, func) ==
    LET pos1 == SeekStart(pos)
        data == ReadToEnd(f, pos1)
        pos2 == pos1 + Len(data)
        json == LoadDocument(data)
    IN  IF json.kind = "Err" THEN TxnResult(f, pos2, Corrupted)
        ELSE IF json.kind = "Object"
        THEN LET result == Call(func, json.map)
             IN  IF WriteBackCond(write_back, result.kind)
                 THEN LET pos3 == SeekStart(pos2)
                          f3 == SetLen(f, 0)
                          data_to_write == ToVecPretty(result.map)
                      IN  TxnResult(WriteAll(f3, pos3, data_to_write),
                                    pos3 + Len(data_to_write), result)
                 ELSE TxnResult(f, pos2, result)
        ELSE TxnResult(f, pos2, Corrupted)

(* ------------------------------- state --------------------------------- *)

Closed == [open |-> FALSE, pos |-> 0]

NoFunc == Closure("-", "-", "-", NoVal)
NoResult == FuncResult("Ok", NoVal, FALSE, <<>>, EmptyMap)

\* A store that is in no call.
Idle == [pc |-> "idle", func |-> NoFunc, write_back |-> FALSE, result |-> NoResult]

NoLog ==
    [caller |-> 0, writer |-> 0, creates |-> 0,
     calls |-> [h \in Handles |-> 0],
     wrote |-> [h \in Handles |-> <<>>],
     last |-> [h \in Handles |-> NoFunc], lastWrite |-> 0,
     between |-> [h \in Handles |-> FALSE], failed |-> "-"]

Ret(op, key, ty, kind, val, flag, list) ==
    [op |-> op, key |-> key, ty |-> ty, kind |-> kind, val |-> val,
     flag |-> flag, list |-> list]

\* The object the file holds, when it holds one.
Valid(f) == FromSlice(f).kind = "Object"
Doc(f) == FromSlice(f).map

Key1 == KeyName(1)

\* Files found at the path before the first open: objects (canonical or not,
\* one with a repeated key), other JSON values, and text that is not JSON.
InitialFiles ==
    { <<"{", "}">>,
      ToVecPretty(MapInsert(EmptyMap, Key1, "1")),
      <<"{", Quote(Key1), ":", Quote("x"), "}">>,
      <<"{", Quote(Key1), ":", "1", ",", Quote(Key1), ":", "null", "}">>,
      <<"[", "]">>,
      <<"1">>,
      <<>>,
      <<"{">>,
      <<"{", "}", "}">> }

Init ==
    /\ exists \in BOOLEAN
    /\ file \in (IF exists THEN InitialFiles ELSE {<<>>})
    /\ handles = [h \in Handles |-> Closed]
    /\ ret = Ret("none", "-", "-", "Ok", NoVal, FALSE, <<>>)
    /\ before = file
    /\ abs = Doc(file)
    /\ lastOp = [k \in Keys |-> "none"]
    /\ lastVal = [k \in Keys |-> NoVal]
    /\ fresh = "no"
    /\ reopened = [h \in Handles |-> "never"]
    /\ log = NoLog
    /\ proc = [h \in Handles |-> Idle]

(* ------------------------------ actions -------------------------------- *)

\* Settings::open: create and initialise the file when the path does not
\* exist, open it for reading and writing otherwise.
Open(h) ==
    /\ ~handles[h].open
    /\ proc[h].pc = "idle"
    /\ UNCHANGED <<log, proc>>
    /\ IF ~exists
       THEN /\ exists' = TRUE
            /\ file' = WriteAll(<<>>, 0, InitialContent)
            /\ handles' = [handles EXCEPT ![h] =
                              [open |-> TRUE, pos |-> Len(InitialContent)]]
            /\ fresh' = "created"
       ELSE /\ exists' = exists
            /\ file' = OpenExisting(file)
            /\ handles' = [handles EXCEPT ![h] = [open |-> TRUE, pos |-> 0]]
            /\ fresh' = "no"
    /\ ret' = Ret("open", "-", "-", "Ok", NoVal, FALSE, <<>>)
    /\ before' = file
    /\ reopened' = [reopened EXCEPT ![h] =
                       IF @ = "never" THEN "never" ELSE "reopened"]
    /\ UNCHANGED <<abs, lastOp, lastVal>>

\* The store is dropped: its file descriptor is closed.
Drop(h) ==
    /\ handles[h].open
    /\ proc[h].pc = "idle"
    /\ UNCHANGED <<log, proc>>
    /\ handles' = [handles EXCEPT ![h] = Closed]
    /\ ret' = Ret("drop", "-", "-", "Ok", NoVal, FALSE, <<>>)
    /\ before' = file
    /\ reopened' = [reopened EXCEPT ![h] = "dropped"]
    /\ fresh' = "no"
    /\ UNCHANGED <<exists, file, abs, lastOp, lastVal>>

NextFresh == IF fresh = "created" THEN "first" ELSE "no"

\* What every accessor does with the result of its modify_settings call.
Apply(h, t) ==
    /\ file' = t.file
    /\ before' = file
    /\ handles' = [handles EXCEPT ![h].pos = t.pos]
    /\ fresh' = NextFresh
    /\ UNCHANGED <<exists, reopened, proc>>

Get(h, key, T) ==
    /\ handles[h].open
    /\ proc[h].pc = "idle"
    /\ log' = [log EXCEPT !.caller = h]
    /\ \E t \in {ModifySettings(file, handles[h].pos, GetWriteBack,
                               Closure("get", key, T, NoVal))} :
           /\ Apply(h, t)
           /\ ret' = Ret("get", key, T, t.kind, t.val, FALSE, <<>>)
    /\ UNCHANGED <<abs, lastOp, lastVal>>

HasValue(h, key) ==
    /\ handles[h].open
    /\ proc[h].pc = "idle"
    /\ log' = [log EXCEPT !.caller = h]
    /\ \E t \in {ModifySettings(file, handles[h].pos, HasValueWriteBack,
                               Closure("has_value", key, "-", NoVal))} :
           /\ Apply(h, t)
           /\ ret' = Ret("has_value", key, "-", t.kind, NoVal, t.flag, <<>>)
    /\ UNCHANGED <<abs, lastOp, lastVal>>

Set(h, key, value) ==
    /\ handles[h].open
    /\ proc[h].pc = "idle"
    /\ \E t \in {ModifySettings(file, handles[h].pos, SetWriteBack,
                               Closure("set", key, "-", value))} :
           /\ Apply(h, t)
           /\ ret' = Ret("set", key, "-", t.kind, value, FALSE, <<>>)
           /\ log' = [log EXCEPT !.caller = h,
                                 !.writer = IF t.kind = "Ok" THEN h ELSE @]
           /\ IF t.kind = "Ok"
              THEN /\ abs' = MapInsert(abs, key, ToValue(value).tok)
                   /\ lastOp' = [lastOp EXCEPT ![key] = "set"]
                   /\ lastVal' = [lastVal EXCEPT ![key] = value]
              ELSE UNCHANGED <<abs, lastOp, lastVal>>

Clear(h, key) ==
    /\ handles[h].open
    /\ proc[h].pc = "idle"
    /\ \E t \in {ModifySettings(file, handles[h].pos, ClearWriteBack,
                               Closure("clear", key, "-", NoVal))} :
           /\ Apply(h, t)
           /\ ret' = Ret("clear", key, "-", t.kind, NoVal, FALSE, <<>>)
           /\ log' = [log EXCEPT !.caller = h,
                                 !.writer = IF t.kind = "Ok" THEN h ELSE @]
           /\ IF t.kind = "Ok"
              THEN /\ abs' = MapRemove(abs, key)
                   /\ lastOp' = [lastOp EXCEPT ![key] = "clear"]
                   /\ lastVal' = [lastVal EXCEPT ![key] = NoVal]
              ELSE UNCHANGED <<abs, lastOp, lastVal>>

ListValues(h) ==
    /\ handles[h].open
    /\ proc[h].pc = "idle"
    /\ log' = [log EXCEPT !.caller = h]
    /\ \E t \in {ModifySettings(file, handles[h].pos, ListValuesWriteBack,
                               Closure("list_values", "-", "-", NoVal))} :
           /\ Apply(h, t)
           /\ ret' = Ret("list_values", "-", "-", t.kind, NoVal, FALSE, t.list)
    /\ UNCHANGED <<abs, lastOp, lastVal>>

\* One owner of the file, whose calls run one after the other.
Next ==
    \/ Open(Owner)
    \/ Drop(Owner)
    \/ \E key \in Keys, T \in Types : Get(Owner, key, T)
    \/ \E key \in Keys : HasValue(Owner, key)
    \/ \E key \in Keys, value \in RustValues : Set(Owner, key, value)
    \/ \E key \in Keys : Clear(Owner, key)
    \/ ListValues(Owner)

Spec == Init /\ [][Next]_vars

TypeOK ==
    /\ exists \in BOOLEAN
    /\ \A h \in Handles : handles[h].open \in BOOLEAN /\ handles[h].pos \in Nat
    /\ ret.kind \in {"Ok", "NotFound", "Type", "Corrupted", "IoError"}
    /\ DOMAIN abs \subseteq Keys

(* ------------------------------- claims -------------------------------- *)

Accessors == {"get", "has_value", "set", "clear", "list_values"}
ReadOnly == {"get", "has_value", "list_values"}

\* The shape of a stored JSON value and the shapes a requested type accepts.
Shape(tok) ==
    CASE tok \in IntTokens -> "integer"
      [] tok \in FloatTokens -> "float"
      [] tok \in StringTokens -> "string"
      [] OTHER -> "null"

Accepts(T) ==
    CASE T = "i64" -> {"integer"}
      [] T = "f64" -> {"integer", "float"}
      [] OTHER -> {"string"}

Entries(map) == {<<k, map[k]>> : k \in DOMAIN map}
Range(seq) == {seq[i] : i \in 1..Len(seq)}

\* C1: a get<T>(K) that follows a successful set(K, v), v of type T, with no
\* set or clear of K in between, returns Ok with a value equal to v.
C1_SetThenGet ==
    (ret.op = "get" /\ lastOp[ret.key] = "set" /\ ret.ty = lastVal[ret.key].ty)
        => (ret.kind = "Ok" /\ ret.val = lastVal[ret.key])

\* C2: has_value(K) returns true when the last successful set or clear of K
\* was a set, false when it was a clear, and on a valid document it returns
\* Ok whether or not K is there.
C2_HasValue ==
    ret.op = "has_value" =>
        /\ lastOp[ret.key] = "set" => (ret.kind = "Ok" /\ ret.flag)
        /\ lastOp[ret.key] = "clear" => (ret.kind = "Ok" /\ ~ret.flag)
        /\ Valid(before) => ret.kind = "Ok"
        /\ ret.kind \in {"Ok", "Corrupted"}

C2_Witness ==
    /\ ret.op = "has_value" /\ ret.kind = "Ok" /\ ret.flag
    /\ lastOp[ret.key] = "set"
    /\ \E k \in Keys : lastOp[k] = "clear"

\* C3: once sets and clears have succeeded, a store that is dropped and opened
\* again on the same path finds a document with exactly the entries of the
\* map obtained by applying the same sets and clears in order.
C3_Reopen ==
    (reopened[Owner] = "reopened" /\ \E k \in Keys : lastOp[k] # "none")
        => (Valid(file) /\ Doc(file) = abs
            /\ \A k \in Keys :
                  /\ lastOp[k] = "set" =>
                        (k \in DOMAIN Doc(file)
                         /\ Doc(file)[k] = ToValue(lastVal[k]).tok)
                  /\ lastOp[k] = "clear" => k \notin DOMAIN Doc(file))

C3_Witness ==
    /\ reopened[Owner] = "reopened" /\ ret.op = "open"
    /\ \E k \in Keys : lastOp[k] = "set"
    /\ \E k \in Keys : lastOp[k] = "clear"

\* C4: get, has_value and list_values leave the content of the file as it
\* was before the call, whatever they return.
C4_ReadOnly == ret.op \in ReadOnly => file = before

C4_Witness ==
    /\ ret.op = "get" /\ ret.kind = "Ok"
    /\ ret.key \in DOMAIN Doc(file)
    /\ file = before

\* C5: on a valid document get<T>(K) returns NotFound exactly when K is not in
\* the document, the stored value when K is there with a shape T accepts, and
\* a Type error when K is there with another shape.
C5_GetResult ==
    (ret.op = "get" /\ Valid(before)) =>
        /\ Doc(before) = abs
        /\ ret.kind = "NotFound" <=> ret.key \notin DOMAIN abs
        /\ ret.key \in DOMAIN abs =>
              IF Shape(abs[ret.key]) \in Accepts(ret.ty)
              THEN /\ ret.kind = "Ok"
                   /\ ret.val = FromValue(abs[ret.key], ret.ty).val
                   /\ ret.val.ty = ret.ty
              ELSE ret.kind = "Type" /\ ret.val = NoVal
        /\ ret.kind = "Ok" => ret.key \in DOMAIN abs

C5_Witness ==
    /\ ret.op = "get" /\ ret.kind = "Type"
    /\ lastOp[ret.key] = "set"
    /\ \E k \in Keys : lastOp[k] = "clear"

\* C6: on a valid document clear(K) returns Ok, and when K is not in the
\* document (as after a clear of K) the document has the same entries after
\* the call as before it.
C6_ClearAbsent ==
    (ret.op = "clear" /\ Valid(before)) =>
        /\ ret.kind = "Ok"
        /\ ret.key \notin DOMAIN Doc(before) =>
              (Valid(file) /\ Doc(file) = Doc(before))
        /\ ret.key \notin DOMAIN Doc(file)

C6_Witness ==
    /\ ret.op = "clear" /\ ret.kind = "Ok"
    /\ Valid(before) /\ ret.key \notin DOMAIN Doc(before)
    /\ Doc(before) # EmptyMap

\* C7: on a valid document list_values returns every entry of the document,
\* nothing else, and every key once.
C7_ListValues ==
    (ret.op = "list_values" /\ Valid(before)) =>
        /\ ret.kind = "Ok"
        /\ Range(ret.list) = Entries(Doc(before))
        /\ Len(ret.list) = Cardinality(DOMAIN Doc(before))
        /\ Doc(before) = abs

C7_Witness ==
    /\ ret.op = "list_values" /\ ret.kind = "Ok"
    /\ Len(ret.list) = NumKeys

\* C8: when the file does not hold a JSON object, open succeeds, every
\* accessor fails with Corrupted and the content of the file stays as it is.
C8_Corrupted ==
    (exists /\ fresh # "created" /\ ~Valid(before)) =>
        /\ file = before
        /\ ret.op \in Accessors => ret.kind = "Corrupted"
        /\ ret.op = "open" => (ret.kind = "Ok" /\ handles[Owner].open)

C8_Witness ==
    /\ ret.op = "set" /\ ret.kind = "Corrupted"
    /\ file = <<"[", "]">>

\* C9: open on a path with no file creates the file with content {}, and the
\* first call on the store finds an empty document: has_value is false,
\* list_values is empty, get is NotFound, set and clear succeed.
C9_OpenCreates ==
    /\ fresh = "created" =>
          (ret.op = "open" /\ ret.kind = "Ok" /\ exists
           /\ file = <<"{", "}">> /\ handles[Owner].open)
    /\ fresh = "first" =>
          /\ ret.kind \notin {"IoError", "Corrupted"}
          /\ ret.op = "has_value" => (ret.kind = "Ok" /\ ~ret.flag)
          /\ ret.op = "list_values" => (ret.kind = "Ok" /\ ret.list = <<>>)
          /\ ret.op = "get" => ret.kind = "NotFound"
          /\ ret.op = "clear" => ret.kind = "Ok"
          /\ (ret.op = "set" /\ ToValue(ret.val).ok) =>
                (ret.kind = "Ok" /\ ret.key \in DOMAIN Doc(file))

C9_Witness == fresh = "first" /\ ret.op = "set" /\ ret.kind = "Ok"

\* C10: a set whose value cannot be serialized returns a Type error on a
\* valid document and writes nothing: the file is as it was before the call.
C10_NoWriteOnFailure ==
    /\ (ret.op = "set" /\ ~ToValue(ret.val).ok /\ Valid(before)) =>
          ret.kind = "Type"
    /\ (ret.op \in Accessors /\ ret.kind # "Ok") => file = before

C10_Witness ==
    /\ ret.op = "set" /\ ret.kind = "Type"
    /\ file = before
    /\ file # ToVecPretty(Doc(file))

(* ------------------------ calls, step by step -------------------------- *)

IoError == FuncResult("IoError", NoVal, FALSE, <<>>, EmptyMap)

Other(h) == CHOOSE g \in Handles : g # h

\* A call of an accessor returns r: the store is idle again, and the history
\* records the call.  lg is the log as the last step of the call leaves it.
Finish(h, r, lg) ==
    LET func == proc[h].func
        done == func.name \in {"set", "clear"} /\ r.kind = "Ok"
    IN  /\ ret' = Ret(func.name, func.key, func.ty, r.kind,
                      IF func.name = "set" THEN func.value ELSE r.val,
                      r.flag, r.list)
        /\ proc' = [proc EXCEPT ![h] = Idle]
        /\ log' = [lg EXCEPT !.caller = h, !.writer = IF done THEN h ELSE @]
        /\ fresh' = NextFresh
        /\ IF done /\ func.name = "set"
           THEN /\ abs' = MapInsert(abs, func.key, ToValue(func.value).tok)
                /\ lastOp' = [lastOp EXCEPT ![func.key] = "set"]
                /\ lastVal' = [lastVal EXCEPT ![func.key] = func.value]
           ELSE IF done
           THEN /\ abs' = MapRemove(abs, func.key)
                /\ lastOp' = [lastOp EXCEPT ![func.key] = "clear"]
                /\ lastVal' = [lastVal EXCEPT ![func.key] = NoVal]
           ELSE UNCHANGED <<abs, lastOp, lastVal>>

\* An accessor is called: modify_settings begins with func and write_back.
\* A store makes at most MaxCalls such calls.
Start(h, func, write_back) ==
    /\ handles[h].open
    /\ proc[h].pc = "idle"
    /\ log.calls[h] < MaxCalls
    /\ proc' = [proc EXCEPT ![h] = [pc |-> "seek", func |-> func,
                                    write_back |-> write_back,
                                    result |-> NoResult]]
    /\ before' = file
    /\ log' = [log EXCEPT !.calls[h] = @ + 1]
    /\ UNCHANGED <<exists, file, handles, ret, abs, lastOp, lastVal, fresh,
                   reopened>>

StartGet(h, key, T) == Start(h, Closure("get", key, T, NoVal), GetWriteBack)
StartHasValue(h, key) ==
    Start(h, Closure("has_value", key, "-", NoVal), HasValueWriteBack)
StartSet(h, key, value) == Start(h, Closure("set", key, "-", value), SetWriteBack)
StartClear(h, key) == Start(h, Closure("clear", key, "-", NoVal), ClearWriteBack)
StartListValues(h) ==
    Start(h, Closure("list_values", "-", "-", NoVal), ListValuesWriteBack)

\* seek(SeekFrom::Start(0)) before the read.
SeekStep(h) ==
    /\ proc[h].pc = "seek"
    /\ handles' = [handles EXCEPT ![h].pos = SeekStart(@)]
    /\ proc' = [proc EXCEPT ![h].pc = "read"]
    /\ UNCHANGED <<exists, file, ret, before, abs, lastOp, lastVal, fresh,
                   reopened, log>>

\* read_to_end, from_slice and the call of func; the call returns here unless
\* there is something to write back.
ReadStep(h) ==
    /\ proc[h].pc = "read"
    /\ \E data \in {ReadToEnd(file, handles[h].pos)} :
       \E json \in {LoadDocument(data)} :
          /\ handles' = [handles EXCEPT ![h].pos = @ + Len(data)]
          /\ IF json.kind # "Object" THEN Finish(h, Corrupted, log)
             ELSE \E result \in {Call(proc[h].func, json.map)} :
                     IF WriteBackCond(proc[h].write_back, result.kind)
                     THEN /\ proc' = [proc EXCEPT ![h].pc = "seek_back",
                                                  ![h].result = result]
                          /\ UNCHANGED <<ret, abs, lastOp, lastVal, fresh, log>>
                     ELSE Finish(h, result, log)
    /\ UNCHANGED <<exists, file, before, reopened>>

\* seek(SeekFrom::Start(0)) before the write-back.
SeekBackStep(h) ==
    /\ proc[h].pc = "seek_back"
    /\ handles' = [handles EXCEPT ![h].pos = SeekStart(@)]
    /\ proc' = [proc EXCEPT ![h].pc = "truncate"]
    /\ UNCHANGED <<exists, file, ret, before, abs, lastOp, lastVal, fresh,
                   reopened, log>>

\* set_len(0).
TruncateStep(h) ==
    /\ proc[h].pc = "truncate"
    /\ file' = SetLen(file, 0)
    /\ proc' = [proc EXCEPT ![h].pc = "write"]
    /\ log' = [log EXCEPT !.between = [g \in Handles |-> FALSE]]
    /\ UNCHANGED <<exists, handles, ret, before, abs, lastOp, lastVal, fresh,
                   reopened>>

\* to_vec_pretty and write_all; the call returns the result of func.
WriteStep(h) ==
    /\ proc[h].pc = "write"
    /\ \E data_to_write \in {ToVecPretty(proc[h].result.map)} :
          /\ file' = WriteAll(file, handles[h].pos, data_to_write)
          /\ handles' = [handles EXCEPT ![h].pos = @ + Len(data_to_write)]
          /\ Finish(h, proc[h].result,
                    [log EXCEPT !.wrote[h] = data_to_write,
                                !.last[h] = proc[h].func,
                                !.lastWrite = h,
                                !.between = [g \in Handles |->
                                    IF g # h /\ proc[g].pc = "write"
                                    THEN TRUE ELSE @[g]]])
    /\ UNCHANGED <<exists, before, reopened>>

(* ------------------------- open, step by step -------------------------- *)

\* The file is created as File::create creates it: an existing file is emptied.
CreateNew_Create(ex) == TRUE

\* File::create_new fails when the path exists.
CreateNew(ex) == ~ex

\* An open returns: the store is idle again.
FinishOpen(h, kind) ==
    /\ ret' = Ret("open", "-", "-", kind, NoVal, FALSE, <<>>)
    /\ proc' = [proc EXCEPT ![h] = Idle]
    /\ UNCHANGED <<abs, lastOp, lastVal>>

StartOpen(h) ==
    /\ ~handles[h].open
    /\ proc[h].pc = "idle"
    /\ proc' = [proc EXCEPT ![h].pc = "exists"]
    /\ before' = file
    /\ UNCHANGED <<exists, file, handles, ret, abs, lastOp, lastVal, fresh,
                   reopened, log>>

\* Path::exists.
ExistsStep(h) ==
    /\ proc[h].pc = "exists"
    /\ proc' = [proc EXCEPT ![h].pc =
                   IF ~exists THEN "create_new" ELSE "open_existing"]
    /\ UNCHANGED <<exists, file, handles, ret, before, abs, lastOp, lastVal,
                   fresh, reopened, log>>

\* File::create_new: an empty file, or an error when the path exists by now.
CreateNewStep(h) ==
    /\ proc[h].pc = "create_new"
    /\ IF CreateNew(exists)
       THEN /\ exists' = TRUE
            /\ file' = <<>>
            /\ handles' = [handles EXCEPT ![h] = [open |-> FALSE, pos |-> 0]]
            /\ proc' = [proc EXCEPT ![h].pc = "init"]
            /\ log' = [log EXCEPT !.creates = @ + 1]
            /\ UNCHANGED <<ret, abs, lastOp, lastVal, fresh>>
       ELSE /\ FinishOpen(h, "IoError")
            /\ UNCHANGED <<exists, file, handles, fresh, log>>
    /\ UNCHANGED <<before, reopened>>

\* write_all of the initial content through the new file.
InitStep(h) ==
    /\ proc[h].pc = "init"
    /\ file' = WriteAll(file, handles[h].pos, InitialContent)
    /\ handles' = [handles EXCEPT ![h] =
                      [open |-> TRUE, pos |-> @.pos + Len(InitialContent)]]
    /\ fresh' = "created"
    /\ FinishOpen(h, "Ok")
    /\ reopened' = [reopened EXCEPT ![h] =
                       IF @ = "never" THEN "never" ELSE "reopened"]
    /\ UNCHANGED <<exists, before, log>>

\* OpenOptions::open of the file that is there.
OpenExistingStep(h) ==
    /\ proc[h].pc = "open_existing"
    /\ file' = OpenExisting(file)
    /\ handles' = [handles EXCEPT ![h] = [open |-> TRUE, pos |-> 0]]
    /\ fresh' = "no"
    /\ FinishOpen(h, "Ok")
    /\ reopened' = [reopened EXCEPT ![h] =
                       IF @ = "never" THEN "never" ELSE "reopened"]
    /\ UNCHANGED <<exists, before, log>>

(* ----------------- two stores, one call after the other ---------------- *)

\* The values and types the calls of two stores are run with.
TwoValues == {[ty |-> "i64", v |-> "1"], [ty |-> "String", v |-> "x"]}
TwoTypes == {"i64", "String"}

\* Two stores on the same file; every call runs to its end before the next
\* call of either store begins.
NextTwo ==
    \E h \in Handles :
        \/ Open(h)
        \/ \E key \in Keys, T \in TwoTypes : Get(h, key, T)
        \/ \E key \in Keys : HasValue(h, key)
        \/ \E key \in Keys, value \in TwoValues : Set(h, key, value)
        \/ \E key \in Keys : Clear(h, key)
        \/ ListValues(h)

SpecTwo == Init /\ [][NextTwo]_vars

\* C15: a set or clear of K on a valid document leaves every other key as it
\* was, present with the same value or absent, and after a successful call the
\* file is the new document and nothing else: nothing of a longer file stays.
C15_Frame ==
    (ret.op \in {"set", "clear"} /\ Valid(before)) =>
        /\ Valid(file)
        /\ \A j \in Keys \ {ret.key} :
              /\ j \in DOMAIN Doc(file) <=> j \in DOMAIN Doc(before)
              /\ j \in DOMAIN Doc(before) => Doc(file)[j] = Doc(before)[j]
        /\ ret.kind = "Ok" => file = ToVecPretty(Doc(file))
        /\ ret.kind # "Ok" => file = before

C15_Witness ==
    /\ ret.op = "clear" /\ ret.kind = "Ok"
    /\ Valid(before) /\ ret.key \in DOMAIN Doc(before)
    /\ Len(file) < Len(before)
    /\ \E j \in Keys \ {ret.key} : j \in DOMAIN Doc(file)

\* C16: with two stores whose calls do not overlap, a get, has_value or
\* list_values through either store returns what the sets and clears made
\* through both stores left, wherever the cursor of the store was.
C16_TwoStores ==
    (ret.op \in ReadOnly /\ Valid(before)) =>
        /\ Doc(before) = abs
        /\ ret.op = "has_value" =>
              (ret.kind = "Ok" /\ (ret.flag <=> ret.key \in DOMAIN abs))
        /\ ret.op = "list_values" =>
              (ret.kind = "Ok" /\ Range(ret.list) = Entries(abs)
               /\ Len(ret.list) = Cardinality(DOMAIN abs))
        /\ ret.op = "get" =>
              IF ret.key \in DOMAIN abs
              THEN IF Shape(abs[ret.key]) \in Accepts(ret.ty)
                   THEN /\ ret.kind = "Ok"
                        /\ ToValue(ret.val).tok = abs[ret.key]
                   ELSE ret.kind = "Type"
              ELSE ret.kind = "NotFound"

C16_Witness ==
    /\ ret.op = "get" /\ ret.kind = "Ok"
    /\ lastOp[ret.key] = "set"
    /\ log.writer # 0 /\ log.caller # log.writer
    /\ handles[log.caller].open /\ handles[log.writer].open
    /\ Len(file) # Len(InitialContent)
    /\ \E k \in Keys : lastOp[k] = "clear"

(* ------------------- two stores, steps interleaved --------------------- *)

\* The value the sets of interleaved stores are run with.
ConcValues == {[ty |-> "i64", v |-> "1"]}

ConcInitialFiles ==
    { <<"{", "}">>, ToVecPretty(MapInsert(EmptyMap, Key1, "1")) }

InitConc ==
    /\ exists \in BOOLEAN
    /\ file \in (IF exists THEN ConcInitialFiles ELSE {<<>>})
    /\ handles = [h \in Handles |-> Closed]
    /\ ret = Ret("none", "-", "-", "Ok", NoVal, FALSE, <<>>)
    /\ before = file
    /\ abs = Doc(file)
    /\ lastOp = [k \in Keys |-> "none"]
    /\ lastVal = [k \in Keys |-> NoVal]
    /\ fresh = "no"
    /\ reopened = [h \in Handles |-> "never"]
    /\ log = NoLog
    /\ proc = [h \in Handles |-> Idle]

\* Two stores on the same file, no lock: the steps of their opens, sets and
\* gets interleave in every order.
NextConc ==
    \E h \in Handles :
        \/ StartOpen(h)
        \/ ExistsStep(h)
        \/ CreateNewStep(h)
        \/ InitStep(h)
        \/ OpenExistingStep(h)
        \/ \E key \in Keys, value \in ConcValues : StartSet(h, key, value)
        \/ \E key \in Keys : StartGet(h, key, "i64")
        \/ SeekStep(h)
        \/ ReadStep(h)
        \/ SeekBackStep(h)
        \/ TruncateStep(h)
        \/ WriteStep(h)

SpecConc == InitConc /\ [][NextConc]_vars

\* C13: a read step of one store that falls between the truncate and the
\* write of the other store finds the file empty, and the call of the reader
\* fails with Corrupted.
C13_HalfWritten ==
    [][\A h \in Handles :
          (ReadStep(h) /\ proc[Other(h)].pc = "write" /\ ~log.between[Other(h)])
              => (file = <<>> /\ ret'.kind = "Corrupted"
                  /\ ret'.op = proc[h].func.name /\ proc'[h].pc = "idle")]_vars

C13_Witness ==
    /\ ret.op = "get" /\ ret.kind = "Corrupted"
    /\ log.caller # 0 /\ proc[log.caller].pc = "idle"
    /\ proc[Other(log.caller)].pc = "write"
    /\ file = <<>>
    /\ log.lastWrite = 0

\* Both stores are idle and the last write-back of each was a set that
\* returned, the two sets on different keys.
BothSetsDone ==
    /\ \A h \in Handles : proc[h].pc = "idle" /\ log.last[h].name = "set"
    /\ log.last[1].key # log.last[2].key

\* C14 as claimed: once both sets have returned the file holds the complete
\* document of the store whose write step came last.
C14_LastWriteWins ==
    BothSetsDone => file = log.wrote[log.lastWrite]

\* C14: once both sets have returned, the file begins with the complete
\* document of the store whose write step came last; it is that document and
\* nothing else unless the write step of the other store fell between the
\* truncate and the write of the last one, and then what the other document
\* has beyond the length of the last one stays behind it.
C14_LastWriteOver ==
    BothSetsDone =>
        LET l == log.lastWrite
            o == Other(l)
        IN  /\ SubSeq(file, 1, Len(log.wrote[l])) = log.wrote[l]
            /\ file = IF log.between[l]
                      THEN WriteAll(log.wrote[o], 0, log.wrote[l])
                      ELSE log.wrote[l]

C14_Witness ==
    /\ BothSetsDone
    /\ log.between[log.lastWrite]
    /\ Len(log.wrote[Other(log.lastWrite)]) > Len(log.wrote[log.lastWrite])
    /\ ~Valid(file)

OpenSteps(h) ==
    StartOpen(h) \/ ExistsStep(h) \/ CreateNewStep(h) \/ InitStep(h)
        \/ OpenExistingStep(h)

\* C17: no step of an open changes the content of a file, except that the
\* open which created the file writes {} into it while it is still empty;
\* the file is created at most once, and a create_new that finds the path
\* taken returns an IoError.
C17_OpenKeepsContent ==
    [][\A h \in Handles :
          OpenSteps(h) =>
              /\ file' # file =>
                    (proc[h].pc = "init" /\ file = <<>> /\ file' = InitialContent)
              /\ exists => exists'
              /\ log'.creates <= 1
              /\ (proc[h].pc = "create_new" /\ exists) =>
                    (ret'.op = "open" /\ ret'.kind = "IoError"
                     /\ ~handles'[h].open)]_vars

C17_Witness ==
    /\ ret.op = "open" /\ ret.kind = "IoError"
    /\ log.creates = 1
    /\ Valid(file) /\ Doc(file) # EmptyMap

(* --------------------- one store, failing file steps ------------------- *)

\* seek fails: the call returns an IoError.
SeekFail(h) ==
    /\ proc[h].pc \in {"seek", "seek_back"}
    /\ Finish(h, IoError, [log EXCEPT !.failed = "seek"])
    /\ UNCHANGED <<exists, file, handles, before, reopened>>

\* read_to_end fails after it has read some of the file.
ReadFail(h) ==
    /\ proc[h].pc = "read"
    /\ \E n \in 0..Len(ReadToEnd(file, handles[h].pos)) :
          handles' = [handles EXCEPT ![h].pos = @ + n]
    /\ Finish(h, IoError, [log EXCEPT !.failed = "read_to_end"])
    /\ UNCHANGED <<exists, file, before, reopened>>

\* set_len fails: the file keeps its content.
TruncateFail(h) ==
    /\ proc[h].pc = "truncate"
    /\ Finish(h, IoError, [log EXCEPT !.failed = "set_len"])
    /\ UNCHANGED <<exists, file, handles, before, reopened>>

\* write_all fails after it has written n tokens of the document, n less
\* than its length.
WriteFail(h) ==
    /\ proc[h].pc = "write"
    /\ \E data_to_write \in {ToVecPretty(proc[h].result.map)} :
       \E n \in 0..(Len(data_to_write) - 1) :
          /\ file' = WriteAll(file, handles[h].pos, SubSeq(data_to_write, 1, n))
          /\ handles' = [handles EXCEPT ![h].pos = @ + n]
    /\ Finish(h, IoError, [log EXCEPT !.failed = "write_all"])
    /\ UNCHANGED <<exists, before, reopened>>

\* File::create_new fails for another reason than an existing path.
CreateNewFail(h) ==
    /\ proc[h].pc = "create_new"
    /\ FinishOpen(h, "IoError")
    /\ UNCHANGED <<exists, file, handles, before, fresh, reopened, log>>

\* The write of the initial content fails after n tokens; the new file stays.
InitFail(h) ==
    /\ proc[h].pc = "init"
    /\ \E n \in 0..(Len(InitialContent) - 1) :
          file' = WriteAll(file, handles[h].pos, SubSeq(InitialContent, 1, n))
    /\ FinishOpen(h, "IoError")
    /\ UNCHANGED <<exists, handles, before, fresh, reopened, log>>

\* OpenOptions::open fails.
OpenExistingFail(h) ==
    /\ proc[h].pc = "open_existing"
    /\ FinishOpen(h, "IoError")
    /\ UNCHANGED <<exists, file, handles, before, fresh, reopened, log>>

ValidInitialFiles == {f \in InitialFiles : Valid(f)}

InitIO ==
    /\ exists \in BOOLEAN
    /\ file \in (IF exists THEN ValidInitialFiles ELSE {<<>>})
    /\ handles = [h \in Handles |-> Closed]
    /\ ret = Ret("none", "-", "-", "Ok", NoVal, FALSE, <<>>)
    /\ before = file
    /\ abs = Doc(file)
    /\ lastOp = [k \in Keys |-> "none"]
    /\ lastVal = [k \in Keys |-> NoVal]
    /\ fresh = "no"
    /\ reopened = [h \in Handles |-> "never"]
    /\ log = NoLog
    /\ proc = [h \in Handles |-> Idle]

\* One owner of a file that held an object or did not exist; every file step
\* of its opens and of its calls, MaxCalls of them, succeeds or fails.
NextIO ==
    \/ StartOpen(Owner)
    \/ ExistsStep(Owner)
    \/ CreateNewStep(Owner)
    \/ InitStep(Owner)
    \/ OpenExistingStep(Owner)
    \/ Drop(Owner)
    \/ \E key \in Keys, T \in TwoTypes : StartGet(Owner, key, T)
    \/ \E key \in Keys : StartHasValue(Owner, key)
    \/ \E key \in Keys, value \in TwoValues : StartSet(Owner, key, value)
    \/ \E key \in Keys : StartClear(Owner, key)
    \/ StartListValues(Owner)
    \/ SeekStep(Owner)
    \/ ReadStep(Owner)
    \/ SeekBackStep(Owner)
    \/ TruncateStep(Owner)
    \/ WriteStep(Owner)
    \/ SeekFail(Owner)
    \/ ReadFail(Owner)
    \/ TruncateFail(Owner)
    \/ WriteFail(Owner)
    \/ CreateNewFail(Owner)
    \/ InitFail(Owner)
    \/ OpenExistingFail(Owner)

SpecIO == InitIO /\ [][NextIO]_vars

\* C11: when no call is in progress the file is empty or holds a JSON object.
C11_DocumentInvariant ==
    proc[Owner].pc = "idle" => (file = <<>> \/ Valid(file))

\* The document a set or clear of the last call makes of the one before it.
NewDoc ==
    IF ret.op = "set"
    THEN MapInsert(Doc(before), ret.key, ToValue(ret.val).tok)
    ELSE MapRemove(Doc(before), ret.key)

\* C12: after a set or clear has returned, the file holds the complete
\* document it held before the call or the complete new document, and after
\* an error the document it held before.
C12_AtomicWriteBack ==
    (proc[Owner].pc = "idle" /\ ret.op \in {"set", "clear"} /\ Valid(before)) =>
        /\ file = before \/ file = ToVecPretty(NewDoc)
        /\ ret.kind # "Ok" => file = before

====
